---- MODULE Spec2Model ----
(***************************************************************************)
(* Countdown bot (main.py): the state file data.json, the daily tick       *)
(* send_daily_message and the admin handlers set_date / set_data_command,  *)
(* as cooperative tasks that interleave at their await points.             *)
(*                                                                         *)
(* Calendar dates are day numbers.  A date string is a record              *)
(* [fmt, day]: fmt is the textual layout ("ymd" = YYYY-MM-DD,              *)
(* "dmy" = dd-mm-yyyy, "junk" = no date at all) and JSON null is None.     *)
(***************************************************************************)
EXTENDS Integers, Sequences, FiniteSets, TLC

\* ---------------------------------------------------------------- bounds
MaxDay == 2            \* the clock and the admin's dates run over 0..MaxDay

Days == 0..MaxDay

\* ------------------------------------------------------- dates as strings
None == [fmt |-> "null", day |-> 0]

\* date.strftime("%Y-%m-%d")
strftime(d) == [fmt |-> "ymd", day |-> d]

\* datetime.strptime(s, "%Y-%m-%d") succeeds
ParsesYmd(s) == s.fmt = "ymd"

\* datetime.strptime(s, "%d-%m-%Y") succeeds
ParsesDmy(s) == s.fmt = "dmy"

\* datetime.strptime(s, fmt).date(), for a string the format accepts
strptime(s) == s.day

\* truth value of a JSON string-or-null
Truthy(s) == s.fmt # "null"

\* ------------------------------------------------------------ state file
DefaultData == [intervals |-> <<>>, last_event_date |-> None, target_date |-> None]

RequiredKeys == {"intervals", "last_event_date", "target_date"}

\* a file is its condition, and for a JSON object the keys it has and
\* their values
MissingFile == [state |-> "missing", doc |-> DefaultData, keys |-> RequiredKeys]

\* aiofiles.open(DATA_FILE, mode='w'): the file exists and is empty
Truncated == [state |-> "truncated", doc |-> DefaultData, keys |-> RequiredKeys]

\* the content is not JSON
Garbage == [state |-> "garbage", doc |-> DefaultData, keys |-> RequiredKeys]

\* the content is JSON but not an object: an array, a number, a string, null
NonObject == [state |-> "nonobject", doc |-> DefaultData, keys |-> RequiredKeys]

\* the buffered json.dumps(data) reaches the file when the handle closes
Flushed(data) == [state |-> "json", doc |-> data, keys |-> RequiredKeys]

\* read_data: the content parses as a JSON object
ReadOk(f) == f.state = "json"

\* read_data: lines 81-82 raise TypeError, which no except clause names
ReadRaises(f) == f.state = "nonobject"

\* lines 81-86: a key the object lacks gets its default value
FillKeys(f) ==
    [intervals |-> IF "intervals" \in f.keys THEN f.doc.intervals ELSE <<>>,
     last_event_date |-> IF "last_event_date" \in f.keys
                         THEN f.doc.last_event_date ELSE None,
     target_date |-> IF "target_date" \in f.keys
                     THEN f.doc.target_date ELSE None]

\* read_data: what the caller gets
ReadResult(f) == IF ReadOk(f) THEN FillKeys(f) ELSE DefaultData

\* ------------------------------------------------------ the daily tick
IsEventDay(data, today) ==
    /\ Truthy(data.target_date)
    /\ strptime(data.target_date) = today

IsIdle(data) == ~Truthy(data.target_date)

\* faulty variant: the same-day check of line 282 is missing
SameDayRepeatIgnored(data, today) == FALSE

\* lines 280-284: the event was already recorded today
SameDayRepeat(data, today) ==
    /\ Truthy(data.last_event_date)
    /\ strptime(data.last_event_date) = today

\* faulty variant: the interval of line 286 is taken the wrong way round
RecordEventReversed(data, today) ==
    IF Truthy(data.last_event_date)
    THEN [data EXCEPT
            !.intervals = Append(@, strptime(data.last_event_date) - today),
            !.last_event_date = strftime(today)]
    ELSE [data EXCEPT !.last_event_date = strftime(today)]

\* lines 286-289 and 293: the event is recorded
RecordEvent(data, today) ==
    IF Truthy(data.last_event_date)
    THEN [data EXCEPT
            !.intervals = Append(@, today - strptime(data.last_event_date)),
            !.last_event_date = strftime(today)]
    ELSE [data EXCEPT !.last_event_date = strftime(today)]

\* line 287 is executed
AppendsInterval(data, today) ==
    /\ IsEventDay(data, today)
    /\ Truthy(data.last_event_date)
    /\ ~SameDayRepeat(data, today)

\* faulty variant: line 298 is missing
ResetTargetKeeps(data) == data

\* lines 297-298
ResetTarget(data) == [data EXCEPT !.target_date = None]

RECURSIVE SumSeq(_)
SumSeq(s) == IF s = <<>> THEN 0 ELSE Head(s) + SumSeq(Tail(s))

\* math.exp(x) raises OverflowError for x > 709.78; the largest argument
\* is -lambda * 365 = -365 * len / sum
ExpOverflows(intervals) ==
    /\ SumSeq(intervals) < 0
    /\ 365 * 1000 * Len(intervals) > 709783 * (0 - SumSeq(intervals))

\* faulty variant: line 307 without its guard
lambda_paramUnguarded(intervals) ==
    [num |-> Len(intervals), den |-> SumSeq(intervals)]

\* lines 306-307: 1 / (sum / len) as the fraction num / den with den > 0,
\* or 0 when the mean is 0
lambda_param(intervals) ==
    LET s == SumSeq(intervals)
        n == Len(intervals)
    IN IF s = 0 THEN [num |-> 0, den |-> 1]
       ELSE IF s > 0 THEN [num |-> n, den |-> s]
       ELSE [num |-> 0 - n, den |-> 0 - s]

\* line 307 divides by zero
ZeroDivision(intervals) == lambda_param(intervals).den = 0

\* lines 315-316: 1 - exp(-lam * days) is an increasing function of
\* lam * days that is 0 at 0; the value is carried as that argument, the
\* fraction num / den
poisson_prob_at_least_one(lam, days) ==
    [num |-> lam.num * days, den |-> lam.den]

\* p <= q for two such values: their arguments compared as fractions
ProbLeq(p, q) == p.num * q.den <= q.num * p.den

\* the value is 0, printed 0.00
ProbIsZero(p) == p.num = 0

\* lines 305-322 raise
ForecastRaises(intervals) ==
    /\ intervals # <<>>
    /\ (ZeroDivision(intervals) \/ ExpOverflows(intervals))

\* int(expected_time): truncation toward zero of sum / len
IntMean(intervals) ==
    LET s == SumSeq(intervals)
        n == Len(intervals)
    IN IF s >= 0 THEN s \div n ELSE 0 - ((0 - s) \div n)

NoMessage == [kind |-> "none", n |-> 0]

\* the horizons of lines 319-322
Tomorrow == 1
Week == 7
Month == 30
Year == 365

\* lines 304-338
ForecastMessage(intervals) ==
    IF intervals # <<>>
    THEN LET lam == lambda_param(intervals)
         IN [kind |-> "forecast", n |-> IntMean(intervals), lam |-> lam,
             days_prob |-> poisson_prob_at_least_one(lam, Tomorrow),
             week_prob |-> poisson_prob_at_least_one(lam, Week),
             month_prob |-> poisson_prob_at_least_one(lam, Month),
             year_prob |-> poisson_prob_at_least_one(lam, Year)]
    ELSE [kind |-> "nodata", n |-> 0]

Max(a, b) == IF a >= b THEN a ELSE b

\* faulty variant: line 351 posts days_left itself
CountdownMessageUnclamped(data, today) ==
    [kind |-> "countdown", n |-> strptime(data.target_date) - today]

\* lines 350-351
CountdownMessage(data, today) ==
    [kind |-> "countdown", n |-> Max(0, strptime(data.target_date) - today)]

\* -------------------------------------------------------------- set_date
TextNone == [fmt |-> "none", day |-> 0]

\* line 140: the date is refused
IsPastDate(new_target_date, current_date) == new_target_date < current_date

\* faulty variant: line 132 is missing
ClearTargetKeepsMarker(data) == [data EXCEPT !.target_date = None]

\* lines 131-132
ClearTarget(data) == [data EXCEPT !.target_date = None, !.last_event_date = None]

\* lines 145-146
SetTarget(data, new_target_date) ==
    [data EXCEPT !.target_date = strftime(new_target_date),
                 !.last_event_date = None]

\* ------------------------------------------------------ set_data_command

\* lines 201-222: the payload passes every check
PayloadValid(p) ==
    /\ p.json
    /\ RequiredKeys \subseteq p.keys
    /\ p.is_list
    /\ (p.doc.last_event_date # None => ParsesYmd(p.doc.last_event_date))
    /\ (p.doc.target_date # None => ParsesYmd(p.doc.target_date))

\* lines 213, 219: strptime raises TypeError for a date that is not a string
StrptimeTypeError(s) == s.fmt = "number"

\* lines 201-222 raise an exception that no except clause names
PayloadRaises(p) ==
    /\ p.json
    /\ RequiredKeys \subseteq p.keys
    /\ p.is_list
    /\ \/ StrptimeTypeError(p.doc.last_event_date)
       \/ /\ p.doc.last_event_date # None => ParsesYmd(p.doc.last_event_date)
          /\ StrptimeTypeError(p.doc.target_date)

\* ---------------------------------------------------------------- inputs
\* dates an admin puts into a /set_data payload
DateStrings == {None, strftime(0), strftime(1)}

\* texts an admin sends to set_date
Texts == {TextNone, [fmt |-> "junk", day |-> 0]}
           \cup {[fmt |-> "dmy", day |-> d] : d \in Days}
           \cup {[fmt |-> "ymd", day |-> 1]}

PayloadIntervals == {<<>>, <<0>>}

PayloadDocs ==
    [intervals : PayloadIntervals,
     last_event_date : DateStrings,
     target_date : DateStrings]

GoodPayloads ==
    {[json |-> TRUE, keys |-> RequiredKeys, is_list |-> TRUE, doc |-> d] :
        d \in PayloadDocs}

BadPayloads ==
    {[json |-> FALSE, keys |-> {}, is_list |-> FALSE, doc |-> DefaultData],
     [json |-> TRUE, keys |-> {"intervals", "target_date"}, is_list |-> TRUE,
      doc |-> DefaultData],
     [json |-> TRUE, keys |-> RequiredKeys, is_list |-> FALSE, doc |-> DefaultData],
     [json |-> TRUE, keys |-> RequiredKeys, is_list |-> TRUE,
      doc |-> [DefaultData EXCEPT !.last_event_date = [fmt |-> "junk", day |-> 0]]],
     [json |-> TRUE, keys |-> RequiredKeys, is_list |-> TRUE,
      doc |-> [DefaultData EXCEPT !.target_date = [fmt |-> "dmy", day |-> 1]]],
     [json |-> TRUE, keys |-> RequiredKeys, is_list |-> TRUE,
      doc |-> [DefaultData EXCEPT !.last_event_date = [fmt |-> "number", day |-> 0]]]}

\* conditions of the state file: absent, empty, not JSON, JSON that is not
\* an object, and objects with any of the three keys
FileConditions ==
    {MissingFile, Truncated, Garbage, NonObject}
        \cup {f \in [state : {"json"}, doc : PayloadDocs, keys : SUBSET RequiredKeys] :
                 FillKeys(f) = f.doc}

Payloads == GoodPayloads \cup BadPayloads

\* ----------------------------------------------------------------- state
VARIABLES
    now,        \* datetime.now(tz=EUROPE_TZ).date()
    file,       \* content of DATA_FILE
    tpc,        \* send_daily_message: where the task is suspended
    today,      \* send_daily_message: local today
    tdata,      \* send_daily_message: local data
    tloaded,    \* what read_data returned to this iteration of the tick
    hpc,        \* the admin handler: where it is suspended
    htext,      \* set_date: local text
    hdata,      \* set_date / set_data_command: local data
    hloaded,    \* what read_data returned to set_date
    reply,      \* the last reply_text to the admin
    outbox,     \* the last send_message to the channel
    bot,        \* bot.py: the global target_date, the loop and what it posted
    tstale,     \* the handler wrote the file after the tick loaded it
    hstale,     \* the tick wrote the file after set_date loaded it
    dayAppends, \* appends by ticks that observed the current day
    prevEvent,  \* day of the last event a tick recorded (NoEvent: none yet),
                \* Tainted once a clear or /set_data was written
    cleared     \* a clear erased last_event_date and no event was recorded since

\* ------------------------------------------------- bot.py, the values
\* bot.py line 32: target_date = None
BotNoTarget == [type |-> "none", day |-> 0]

\* bot.py line 66: datetime.strptime(text, "%d-%m-%Y"), a datetime
BotStrptime(text) == [type |-> "datetime", day |-> text.day]

\* bot.py line 81: datetime.now().date(), a date
BotToday(day) == [type |-> "date", day |-> day]

\* bot.py line 80: truth value of target_date
BotTruthy(t) == t.type # "none"

\* bot.py line 81: a datetime minus a date raises TypeError
SubtractRaises(a, b) == a.type # b.type

\* bot.py line 84
Infinity == [kind |-> "infinity", n |-> 0]

\* bot.py lines 80-84
BotMessage(t, day) ==
    IF BotTruthy(t)
    THEN [kind |-> "countdown", n |-> Max(0, t.day - BotToday(day).day)]
    ELSE Infinity

\* bot.py after main() has started the thread of send_daily_message
BotStart ==
    [target_date |-> BotNoTarget, running |-> TRUE, day |-> 0,
     message |-> NoMessage, delivered |-> FALSE, reply |-> "start"]

vars == <<now, bot, file, tpc, today, tdata, tloaded, hpc, htext, hdata, hloaded,
          reply, outbox, tstale, hstale, dayAppends, prevEvent, cleared>>

tickVars == <<tpc, today, tdata, tloaded, outbox>>
handlerVars == <<hpc, htext, hdata, hloaded, reply>>
historyVars == <<tstale, hstale, dayAppends, prevEvent, cleared>>

NoOutput == [text |-> NoMessage, delivered |-> FALSE]

NoEvent == 0 - 1
Tainted == 0 - 2

TickLoadedStates == {"nf_open", "nf_close", "bad_open", "bad_close", "w1_open",
                     "w1_close", "w2_open", "w2_close", "send", "backoff"}

SetDateLoadedStates == {"nf_open", "nf_close", "bad_open", "bad_close",
                        "clear_open", "clear_close", "set_open", "set_close"}

Init ==
    /\ now = 0
    /\ bot = BotStart
    /\ file = MissingFile
    /\ tpc = "sleep"
    /\ today = 0
    /\ tdata = DefaultData
    /\ tloaded = DefaultData
    /\ hpc = "idle"
    /\ htext = TextNone
    /\ hdata = DefaultData
    /\ hloaded = DefaultData
    /\ reply = "start"
    /\ outbox = NoOutput
    /\ tstale = FALSE
    /\ hstale = FALSE
    /\ dayAppends = "none"
    /\ prevEvent = NoEvent
    /\ cleared = FALSE

\* the calendar day changes
Midnight ==
    /\ now < MaxDay
    /\ now' = now + 1
    /\ dayAppends' = "none"
    /\ UNCHANGED <<bot, file, tickVars, handlerVars, tstale, hstale, prevEvent, cleared>>

\* ------------------------------------------------- send_daily_message
\* lines 265-272: asyncio.sleep returns and today is read
Wake ==
    /\ tpc = "sleep"
    /\ today' = now
    /\ tpc' = "read"
    /\ tloaded' = DefaultData
    /\ outbox' = NoOutput
    /\ UNCHANGED <<bot, now, file, tdata, handlerVars, historyVars>>

\* lines 275-358 up to the first await after read_data returned data
TickDispatch(data) ==
    /\ tloaded' = data
    /\ IF IsEventDay(data, today)
       THEN IF SameDayRepeat(data, today)
            THEN /\ tdata' = ResetTarget(data)
                 /\ tpc' = "w2_open"
            ELSE /\ tdata' = RecordEvent(data, today)
                 /\ tpc' = "w1_open"
       ELSE /\ tdata' = data
            /\ tpc' = IF IsIdle(data) /\ ForecastRaises(data.intervals)
                      THEN "backoff"
                      ELSE "send"
    /\ dayAppends' = IF AppendsInterval(data, today) /\ today = now
                     THEN "fresh"
                     ELSE dayAppends

\* lines 74-79, 88, 94: read_data reads the file
TickRead ==
    /\ tpc = "read"
    /\ IF ReadRaises(file)
       THEN /\ tdata' = DefaultData
            /\ tloaded' = tloaded
            /\ tpc' = "backoff"
            /\ dayAppends' = dayAppends
       ELSE IF ReadOk(file)
       THEN TickDispatch(ReadResult(file))
       ELSE /\ tdata' = ReadResult(file)
            /\ tloaded' = tloaded
            /\ tpc' = IF file.state = "missing" THEN "nf_open" ELSE "bad_open"
            /\ dayAppends' = dayAppends
    /\ tstale' = FALSE
    /\ UNCHANGED <<bot, now, file, today, outbox, handlerVars, hstale, prevEvent, cleared>>

\* lines 92, 98: read_data opens the file to write the default
TickDefaultOpen ==
    /\ tpc \in {"nf_open", "bad_open"}
    /\ file' = Truncated
    /\ tpc' = IF tpc = "nf_open" THEN "nf_close" ELSE "bad_close"
    /\ UNCHANGED <<bot, now, today, tdata, tloaded, outbox, handlerVars, historyVars>>

\* lines 92-93, 98-99: the default is on disk, read_data returns it
TickDefaultClose ==
    /\ tpc \in {"nf_close", "bad_close"}
    /\ file' = Flushed(tdata)
    /\ TickDispatch(tdata)
    /\ hstale' = (hstale \/ (hpc \in SetDateLoadedStates /\ tdata # hloaded))
    /\ prevEvent' = IF prevEvent = Tainted THEN Tainted ELSE NoEvent
    /\ UNCHANGED <<bot, now, today, outbox, handlerVars, tstale, cleared>>

\* lines 290, 294: write_data opens the file
TickWrite1Open ==
    /\ tpc = "w1_open"
    /\ file' = Truncated
    /\ tpc' = "w1_close"
    /\ UNCHANGED <<bot, now, today, tdata, tloaded, outbox, handlerVars, historyVars>>

\* lines 290, 294 close the file; lines 297-298
TickWrite1Close ==
    /\ tpc = "w1_close"
    /\ file' = Flushed(tdata)
    /\ tdata' = ResetTarget(tdata)
    /\ tpc' = "w2_open"
    /\ hstale' = (hstale \/ (hpc \in SetDateLoadedStates /\ tdata # hloaded))
    /\ cleared' = FALSE
    /\ prevEvent' = IF prevEvent = Tainted THEN Tainted ELSE today
    /\ UNCHANGED <<bot, now, today, tloaded, outbox, handlerVars, tstale, dayAppends>>

\* line 299: write_data opens the file
TickWrite2Open ==
    /\ tpc = "w2_open"
    /\ file' = Truncated
    /\ tpc' = "w2_close"
    /\ UNCHANGED <<bot, now, today, tdata, tloaded, outbox, handlerVars, historyVars>>

\* line 299: write_data closes the file; the iteration ends
TickWrite2Close ==
    /\ tpc = "w2_close"
    /\ file' = Flushed(tdata)
    /\ tdata' = DefaultData
    /\ tpc' = "sleep"
    /\ hstale' = (hstale \/ (hpc \in SetDateLoadedStates /\ tdata # hloaded))
    /\ tstale' = FALSE
    /\ cleared' = FALSE
    /\ UNCHANGED <<bot, now, today, tloaded, outbox, handlerVars, dayAppends, prevEvent>>

TickMessage(data) ==
    IF IsIdle(data) THEN ForecastMessage(data.intervals)
                    ELSE CountdownMessage(data, today)

\* faulty variant: the exception of send_message reaches line 360
TickSendEscapes ==
    /\ tpc = "send"
    /\ \E ok \in BOOLEAN :
          /\ outbox' = [text |-> TickMessage(tdata), delivered |-> ok]
          /\ tpc' = IF ok THEN "sleep" ELSE "backoff"
    /\ tdata' = DefaultData
    /\ tstale' = FALSE
    /\ UNCHANGED <<bot, now, file, today, tloaded, handlerVars, hstale, dayAppends,
                   prevEvent, cleared>>

\* lines 342-346, 354-358: send_message succeeds or raises
TickSend ==
    /\ tpc = "send"
    /\ \E ok \in BOOLEAN :
          outbox' = [text |-> TickMessage(tdata), delivered |-> ok]
    /\ tdata' = DefaultData
    /\ tpc' = "sleep"
    /\ tstale' = FALSE
    /\ UNCHANGED <<bot, now, file, today, tloaded, handlerVars, hstale, dayAppends,
                   prevEvent, cleared>>

\* faulty variant: the exception leaves the while loop
TickBackoffStops ==
    /\ tpc = "backoff"
    /\ tdata' = DefaultData
    /\ tpc' = "stopped"
    /\ tstale' = FALSE
    /\ UNCHANGED <<bot, now, file, today, tloaded, outbox, handlerVars, hstale,
                   dayAppends, prevEvent, cleared>>

\* lines 360-362: the exception is logged, asyncio.sleep(60)
TickBackoff ==
    /\ tpc = "backoff"
    /\ tdata' = DefaultData
    /\ tpc' = "sleep"
    /\ tstale' = FALSE
    /\ UNCHANGED <<bot, now, file, today, tloaded, outbox, handlerVars, hstale,
                   dayAppends, prevEvent, cleared>>

Tick ==
    \/ Wake
    \/ TickRead
    \/ TickDefaultOpen
    \/ TickDefaultClose
    \/ TickWrite1Open
    \/ TickWrite1Close
    \/ TickWrite2Open
    \/ TickWrite2Close
    \/ TickSend
    \/ TickBackoff

\* ------------------------------------------------------------ set_date
\* lines 130-152 up to the first await after read_data returned data
SetDateDispatch(text, data) ==
    /\ htext' = TextNone
    /\ IF text = TextNone
       THEN /\ hdata' = ClearTarget(data)
            /\ hloaded' = data
            /\ hpc' = "clear_open"
            /\ reply' = "pending"
            /\ hstale' = hstale
       ELSE IF ParsesDmy(text)
            THEN IF IsPastDate(strptime(text), now)
                 THEN /\ hdata' = DefaultData
                      /\ hloaded' = DefaultData
                      /\ hpc' = "idle"
                      /\ reply' = "must be in the future"
                      /\ hstale' = FALSE
                 ELSE /\ hdata' = SetTarget(data, strptime(text))
                      /\ hloaded' = data
                      /\ hpc' = "set_open"
                      /\ reply' = "pending"
                      /\ hstale' = hstale
            ELSE /\ hdata' = DefaultData
                 /\ hloaded' = DefaultData
                 /\ hpc' = "idle"
                 /\ reply' = "invalid format"
                 /\ hstale' = FALSE

\* lines 111-127: an admin's text arrives and read_data reads the file
SetDateReceive ==
    /\ hpc = "idle"
    /\ \E text \in Texts :
          IF ReadRaises(file)
          THEN /\ htext' = TextNone
               /\ hdata' = DefaultData
               /\ hloaded' = DefaultData
               /\ hpc' = "idle"
               /\ reply' = "no reply"
               /\ hstale' = FALSE
               /\ tstale' = tstale
          ELSE IF ReadOk(file)
          THEN /\ SetDateDispatch(text, ReadResult(file))
               /\ tstale' = tstale
          ELSE /\ htext' = text
               /\ hdata' = ReadResult(file)
               /\ hloaded' = ReadResult(file)
               /\ hpc' = IF file.state = "missing" THEN "nf_open" ELSE "bad_open"
               /\ reply' = "pending"
               /\ UNCHANGED <<hstale, tstale>>
    /\ UNCHANGED <<bot, now, file, tickVars, dayAppends, prevEvent, cleared>>

\* lines 92, 98: read_data opens the file to write the default
SetDateDefaultOpen ==
    /\ hpc \in {"nf_open", "bad_open"}
    /\ file' = Truncated
    /\ hpc' = IF hpc = "nf_open" THEN "nf_close" ELSE "bad_close"
    /\ UNCHANGED <<bot, now, htext, hdata, hloaded, reply, tickVars, historyVars>>

\* lines 92-93, 98-99: the default is on disk, read_data returns it
SetDateDefaultClose ==
    /\ hpc \in {"nf_close", "bad_close"}
    /\ file' = Flushed(hdata)
    /\ SetDateDispatch(htext, hdata)
    /\ tstale' = (tstale \/ (tpc \in TickLoadedStates /\ hdata # tloaded))
    /\ dayAppends' = IF dayAppends = "fresh" THEN "overwritten" ELSE dayAppends
    /\ prevEvent' = IF prevEvent = Tainted THEN Tainted ELSE NoEvent
    /\ cleared' = cleared
    /\ UNCHANGED <<bot, now, tickVars>>

\* ---------------------------------------------------- set_data_command
\* lines 194-224: the payload is parsed and validated, write_data opens the file
SetDataReceive ==
    /\ hpc = "idle"
    /\ \E p \in Payloads :
          IF PayloadValid(p)
          THEN /\ hdata' = p.doc
               /\ hpc' = "data_close"
               /\ reply' = "pending"
               /\ file' = Truncated
          ELSE /\ hdata' = DefaultData
               /\ hpc' = "idle"
               /\ reply' = IF PayloadRaises(p) THEN "no reply"
                           ELSE IF ~p.json THEN "invalid json"
                           ELSE IF ~(RequiredKeys \subseteq p.keys) THEN "missing keys"
                           ELSE IF ~p.is_list THEN "intervals must be a list"
                           ELSE "bad date"
               /\ file' = file
    /\ UNCHANGED <<bot, now, htext, hloaded, tickVars, historyVars>>

\* lines 133, 147: write_data opens the file
HandlerWriteOpen ==
    /\ hpc \in {"clear_open", "set_open"}
    /\ file' = Truncated
    /\ hpc' = IF hpc = "clear_open" THEN "clear_close" ELSE "set_close"
    /\ UNCHANGED <<bot, now, htext, hdata, hloaded, reply, tickVars, historyVars>>

\* lines 133-134, 147-148, 224-225: write_data closes the file, the admin is told
HandlerWriteClose ==
    /\ hpc \in {"clear_close", "set_close", "data_close"}
    /\ file' = Flushed(hdata)
    /\ reply' = CASE hpc = "clear_close" -> "countdown reset"
                  [] hpc = "set_close" -> "countdown set"
                  [] hpc = "data_close" -> "data updated"
    /\ hdata' = DefaultData
    /\ hloaded' = DefaultData
    /\ hpc' = "idle"
    /\ tstale' = (tstale \/ (tpc \in TickLoadedStates /\ hdata # tloaded))
    /\ hstale' = FALSE
    /\ dayAppends' = IF dayAppends = "fresh" THEN "overwritten" ELSE dayAppends
    /\ prevEvent' = IF hpc = "set_close" THEN prevEvent ELSE Tainted
    /\ cleared' = CASE hpc = "clear_close" -> TRUE
                    [] hpc = "set_close" -> cleared
                    [] hpc = "data_close" -> FALSE
    /\ UNCHANGED <<bot, now, htext, tickVars>>

Handler ==
    \/ SetDateReceive
    \/ SetDateDefaultOpen
    \/ SetDateDefaultClose
    \/ SetDataReceive
    \/ HandlerWriteOpen
    \/ HandlerWriteClose

Next == Midnight \/ Tick \/ Handler

Spec == Init /\ [][Next]_vars

\* asyncio runs every task that is ready: the tick task is never starved
FairSpec == Spec /\ WF_vars(Tick)

\* the bot started on a state file in any condition
LoadInit ==
    /\ now = 0
    /\ bot = BotStart
    /\ file \in FileConditions
    /\ tpc = "sleep"
    /\ today = 0
    /\ tdata = DefaultData
    /\ tloaded = DefaultData
    /\ hpc = "idle"
    /\ htext = TextNone
    /\ hdata = DefaultData
    /\ hloaded = DefaultData
    /\ reply = "start"
    /\ outbox = NoOutput
    /\ tstale = FALSE
    /\ hstale = FALSE
    /\ dayAppends = "none"
    /\ prevEvent = NoEvent
    /\ cleared = FALSE

LoadSpec == LoadInit /\ [][Next]_vars

\* ------------------------------------------------ bot.py, the actions
\* bot.py lines 45-47: start
BotStartCommand ==
    /\ bot' = [bot EXCEPT !.reply = "hello"]
    /\ UNCHANGED <<now, file, tickVars, handlerVars, historyVars>>

\* bot.py lines 49-70: set_date
BotSetDate ==
    /\ \E text \in Texts :
          bot' = IF text = TextNone
                 THEN [bot EXCEPT !.target_date = BotNoTarget,
                                  !.reply = "countdown reset"]
                 ELSE IF ParsesDmy(text)
                 THEN [bot EXCEPT !.target_date = BotStrptime(text),
                                  !.reply = "countdown set"]
                 ELSE [bot EXCEPT !.reply = "invalid format"]
    /\ UNCHANGED <<now, file, tickVars, handlerVars, historyVars>>

\* bot.py lines 75-90: the sleep ends at midnight; the message is computed
\* and posted, or line 81 raises and the exception ends the coroutine and
\* the thread that runs it
BotTick ==
    /\ bot.running
    /\ bot.day < now
    /\ IF BotTruthy(bot.target_date)
          /\ SubtractRaises(bot.target_date, BotToday(now))
       THEN bot' = [bot EXCEPT !.running = FALSE, !.day = now]
       ELSE \E ok \in BOOLEAN :
               bot' = [bot EXCEPT !.day = now,
                                  !.message = BotMessage(bot.target_date, now),
                                  !.delivered = ok]
    /\ UNCHANGED <<now, file, tickVars, handlerVars, historyVars>>

\* the day ends after the tick it began with, or with no loop left
BotMidnight == (bot.day = now \/ ~bot.running) /\ Midnight

BotNext == BotMidnight \/ BotTick \/ BotSetDate \/ BotStartCommand

BotSpec == Init /\ [][BotNext]_vars

\* one iteration per calendar day: the sleep of lines 267-270 ends at the next
\* midnight, and the day does not end before the iteration it began with
DailyWake == today < now /\ Wake

DailyMidnight == today = now /\ tpc = "sleep" /\ Midnight

\* set_date and the daily tick alone
DailyNext ==
    \/ DailyMidnight
    \/ DailyWake
    \/ TickRead
    \/ TickDefaultOpen
    \/ TickDefaultClose
    \/ TickWrite1Open
    \/ TickWrite1Close
    \/ TickWrite2Open
    \/ TickWrite2Close
    \/ TickSend
    \/ SetDateReceive
    \/ SetDateDefaultOpen
    \/ SetDateDefaultClose
    \/ HandlerWriteOpen
    \/ HandlerWriteClose

DailySpec == Init /\ [][DailyNext]_vars

TypeOK ==
    /\ now \in Days
    /\ file.state \in {"missing", "truncated", "garbage", "nonobject", "json"}
    /\ tpc \in {"sleep", "read"} \cup TickLoadedStates
    /\ hpc \in {"idle", "data_close"} \cup SetDateLoadedStates
    /\ prevEvent \in {Tainted, NoEvent} \cup Days

\* ------------------------------------------------------ steps of interest
\* the tick's last write_data of an event day completes
TickFinishes == tpc = "w2_close" /\ tpc' = "sleep"

\* the tick's first write_data of an event day completes
TickRecords == tpc = "w1_close" /\ tpc' = "w2_open"

\* the tick appends to data['intervals']
TickAppends ==
    /\ tpc \in {"read", "nf_close", "bad_close"}
    /\ tpc' = "w1_open"
    /\ Len(tdata'.intervals) = Len(tloaded'.intervals) + 1

\* a write_data of the tick reaches the file
TickWrites ==
    /\ tpc \in {"nf_close", "bad_close", "w1_close", "w2_close"}
    /\ tpc' # tpc

\* a write_data of set_date reaches the file
SetDateWrites ==
    /\ hpc \in {"nf_close", "bad_close", "clear_close", "set_close"}
    /\ hpc' # hpc

ClearCompletes == hpc = "clear_close" /\ hpc' = "idle"

SetDateAccepts == hpc \in {"idle", "nf_close", "bad_close"} /\ hpc' = "set_open"

SetDateRefuses ==
    /\ hpc \in {"idle", "nf_close", "bad_close"}
    /\ reply' = "must be in the future"

LoadedEventDay == Truthy(tloaded.target_date) /\ strptime(tloaded.target_date) = today

LoadedEarlierEvent ==
    /\ Truthy(tloaded.last_event_date)
    /\ strptime(tloaded.last_event_date) < today

LoadedSameDayEvent ==
    /\ Truthy(tloaded.last_event_date)
    /\ strptime(tloaded.last_event_date) = today

\* ------------------------------------------------------------------ C1
AfterInterval ==
    [intervals |-> Append(tloaded.intervals, today - strptime(tloaded.last_event_date)),
     last_event_date |-> strftime(today),
     target_date |-> None]

\* C1: a tick that loads target_date = today and an earlier last_event_date
\* leaves on disk the loaded intervals with today - last_event_date appended
\* at the end, last_event_date = today and target_date = null.
C1_IntervalAppended ==
    [][(TickFinishes /\ LoadedEventDay /\ LoadedEarlierEvent)
          => file' = Flushed(AfterInterval)]_vars

C1_Witness ==
    /\ tpc = "sleep"
    /\ LoadedEventDay
    /\ LoadedEarlierEvent
    /\ tloaded.intervals # <<>>
    /\ file = Flushed(AfterInterval)

\* ------------------------------------------------------------------ C2
AfterFirstEvent ==
    [intervals |-> tloaded.intervals,
     last_event_date |-> strftime(today),
     target_date |-> None]

\* C2: a tick that loads target_date = today and last_event_date = null
\* leaves on disk last_event_date = today, target_date = null and the loaded
\* intervals.
C2_FirstEvent ==
    [][(TickFinishes /\ LoadedEventDay /\ tloaded.last_event_date = None)
          => file' = Flushed(AfterFirstEvent)]_vars

C2_Witness ==
    /\ tpc = "sleep"
    /\ LoadedEventDay
    /\ tloaded.last_event_date = None
    /\ tloaded.intervals # <<>>
    /\ file = Flushed(AfterFirstEvent)

\* ------------------------------------------------------------------ C3
SameDayTickKeepsIntervals ==
    (TickFinishes /\ LoadedEventDay /\ LoadedSameDayEvent)
        => file' = Flushed(AfterFirstEvent)

\* C3 as stated: over any sequence of ticks and admin commands two ticks that
\* observe the same day append at most one interval between them, and a tick
\* that loads target_date = today = last_event_date appends nothing, keeps
\* last_event_date and clears target_date.
C3_AnyCommands ==
    [][/\ (TickAppends /\ today = now) => dayAppends = "none"
       /\ SameDayTickKeepsIntervals]_vars

\* C3 amended: two ticks that observe the same day append at most one
\* interval between them unless an admin write reached the file between the
\* two appends; a tick that loads target_date = today = last_event_date
\* appends nothing, keeps last_event_date and clears target_date.
C3_NoSecondInterval ==
    [][/\ (TickAppends /\ today = now) => dayAppends # "fresh"
       /\ SameDayTickKeepsIntervals]_vars

C3_Witness ==
    /\ tpc = "sleep"
    /\ LoadedEventDay
    /\ LoadedSameDayEvent
    /\ dayAppends = "overwritten"
    /\ file = Flushed(AfterFirstEvent)

\* ------------------------------------------------------------------ C4
\* C4: with set_date targets and ticks only, after a tick recorded an event on
\* day prevEvent the tick on a later target day appends today - prevEvent to
\* intervals.
C4_IntervalBetweenEvents ==
    [][(TickRecords /\ LoadedEventDay /\ prevEvent \in Days /\ prevEvent < today)
          => file'.doc.intervals = Append(tloaded.intervals, today - prevEvent)]_vars

\* ------------------------------------------------------------------ C5
\* C5: the clear leaves on disk target_date = null, last_event_date = null
\* and the loaded intervals; after a clear no tick appends an interval until
\* an event is recorded again (or the admin overwrites the file).
C5_ClearResetsMarker ==
    [][/\ ClearCompletes =>
            file' = Flushed([intervals |-> hloaded.intervals,
                             last_event_date |-> None,
                             target_date |-> None])
       /\ TickAppends => ~cleared]_vars

C5_Witness ==
    /\ cleared
    /\ tpc = "w1_close"
    /\ LoadedEventDay
    /\ tloaded.intervals # <<>>
    /\ file.doc.last_event_date = None

\* ------------------------------------------------------------------ C6
\* C6: set_date accepts a date only when it is strictly later than the
\* current date, and a refused date changes nothing on disk.
C6_StrictlyFuture ==
    [][/\ SetDateAccepts => strptime(hdata'.target_date) > now
       /\ SetDateRefuses => file' = file]_vars

\* ------------------------------------------------------------------ C7
\* C7: no load-mutate-save sequence writes data it loaded before the other
\* sequence's write reached the file.
C7_NoLostUpdate ==
    [][/\ TickWrites => ~tstale
       /\ SetDateWrites => ~hstale]_vars

\* ------------------------------------------------------------------ C8
\* C8: no read_data takes the JSONDecodeError branch (the file is written by
\* write_data only, so malformed content is a partly written document).
C8_NoPartialRead ==
    /\ tpc \notin {"bad_open", "bad_close"}
    /\ hpc \notin {"bad_open", "bad_close"}

\* ------------------------------------------------------------------ C9
\* C9: no write of the tick leaves last_event_date = today on disk while
\* target_date is still today.
C9_ClearedInSameWrite ==
    [][TickWrites =>
          ~(/\ file'.doc.last_event_date = strftime(today)
            /\ file'.doc.target_date = strftime(today))]_vars

\* ----------------------------------------------------------------- C10
\* C10: the loop never stops: whatever an iteration ran into, a further
\* iteration is started later.
C10_TickGoesOn == []<>(tpc = "read")

C10_Witness == tpc = "backoff" /\ tloaded.intervals # <<>>

\* ----------------------------------------------------------------- C11
\* the tick finds the scheduler Counting and goes on to post the countdown
TickFindsCounting ==
    /\ tpc \in {"read", "nf_close", "bad_close"}
    /\ tpc' = "send"
    /\ Truthy(tloaded'.target_date)

\* C11: after an accepted set_date with no admin command since, a tick that
\* finds the scheduler Counting still has the target day ahead of it, so the
\* daily ticks reach Triggered.
C11_CountingReachesTarget ==
    [][(TickFindsCounting /\ reply = "countdown set")
          => strptime(tloaded'.target_date) > today]_vars

\* ----------------------------------------------------------------- C12
\* C12: with set_date and daily ticks only, a target_date a tick has loaded
\* is never earlier than the tick's today: line 351 never clamps.
C12_TargetNeverPast ==
    (tpc \in TickLoadedStates /\ Truthy(tloaded.target_date))
        => strptime(tloaded.target_date) - today >= 0

\* ----------------------------------------------------------------- C13
\* the tick calls send_message
TickSends == tpc = "send" /\ tpc' = "sleep"

\* C13: a tick that has loaded a target_date later than today posts the
\* number of days from today to it; a tick that has loaded any other target
\* that is not today posts 0, never a negative number.
C13_CountdownText ==
    [][(TickSends /\ Truthy(tloaded.target_date)
              /\ strptime(tloaded.target_date) # today)
          => /\ outbox'.text.kind = "countdown"
             /\ outbox'.text.n >= 0
             /\ outbox'.text.n =
                    IF strptime(tloaded.target_date) > today
                    THEN strptime(tloaded.target_date) - today
                    ELSE 0]_vars

\* a countdown to a past target has been posted as 0
C13_Witness ==
    /\ tpc = "sleep"
    /\ Truthy(tloaded.target_date)
    /\ strptime(tloaded.target_date) < today
    /\ outbox.text = [kind |-> "countdown", n |-> 0]

\* ----------------------------------------------------------------- C14
\* read_data has returned and the tick acts on what it loaded
TickLoads ==
    /\ tpc \in {"read", "nf_close", "bad_close"}
    /\ tpc' \in {"w1_open", "w2_open", "send", "backoff"}

\* C14: a tick that loads target_date = null posts a message: the fixed
\* no-data message (no number computed) when intervals is empty, the
\* forecast computed from intervals when it is not.
C14_IdleTickPosts ==
    [][/\ (TickLoads /\ IsIdle(tloaded')) => tpc' = "send"
       /\ (TickSends /\ IsIdle(tloaded))
            => outbox'.text =
                 IF tloaded.intervals = <<>>
                 THEN [kind |-> "nodata", n |-> 0]
                 ELSE ForecastMessage(tloaded.intervals)]_vars

\* ----------------------------------------------------------------- C15
\* the tick is idle and the mean of its intervals is 0
ZeroMean(data) ==
    /\ IsIdle(data)
    /\ data.intervals # <<>>
    /\ SumSeq(data.intervals) = 0

\* C15: with a non-empty intervals of mean 0 the forecast does not raise,
\* the rate is 0, the four probabilities are 0 and the expected time is 0.
C15_ZeroMeanForecast ==
    [][/\ (TickLoads /\ ZeroMean(tloaded')) => tpc' = "send"
       /\ (TickSends /\ ZeroMean(tloaded))
            => /\ outbox'.text.kind = "forecast"
               /\ outbox'.text.lam = [num |-> 0, den |-> 1]
               /\ ProbIsZero(outbox'.text.days_prob)
               /\ ProbIsZero(outbox'.text.week_prob)
               /\ ProbIsZero(outbox'.text.month_prob)
               /\ ProbIsZero(outbox'.text.year_prob)
               /\ outbox'.text.n = 0]_vars

\* a forecast for intervals of mean 0 has been posted
C15_Witness ==
    /\ tpc = "sleep"
    /\ ZeroMean(tloaded)
    /\ outbox.text.kind = "forecast"

\* ----------------------------------------------------------------- C16
\* C16: the probabilities of a posted forecast do not decrease with the
\* horizon: tomorrow <= week <= month <= year.
C16_ProbabilitiesOrdered ==
    [][(TickSends /\ IsIdle(tloaded) /\ tloaded.intervals # <<>>)
          => /\ ProbLeq(outbox'.text.days_prob, outbox'.text.week_prob)
             /\ ProbLeq(outbox'.text.week_prob, outbox'.text.month_prob)
             /\ ProbLeq(outbox'.text.month_prob, outbox'.text.year_prob)]_vars

\* ----------------------------------------------------------------- C17
\* read_data reads the file for the tick
TickReads == tpc = "read" /\ tpc' # "read"

\* C17: read_data does not raise, whatever the condition of the file; what
\* it returns has the three keys; for a missing, empty or non-JSON file it
\* is the default, which read_data goes on to write.
C17_ReadNeverFails ==
    [][TickReads
          => /\ ~ReadRaises(file)
             /\ DOMAIN tdata' = RequiredKeys
             /\ ~ReadOk(file)
                  => /\ tdata' = DefaultData
                     /\ tpc' \in {"nf_open", "bad_open"}]_vars

\* ----------------------------------------------------------------- C18
\* C18: every element of the persisted intervals is a non-negative integer.
C18_IntervalsNonNegative ==
    file.state = "json"
        => \A i \in 1..Len(file.doc.intervals) : file.doc.intervals[i] >= 0

\* ----------------------------------------------------------------- C19
\* replies that tell the admin what was wrong with the input
ValidationReplies ==
    {"invalid format", "must be in the future", "invalid json", "missing keys",
     "intervals must be a list", "bad date"}

\* a command ends without having asked for a write of its own
CommandRefused ==
    /\ hpc \in {"idle", "nf_close", "bad_close"}
    /\ hpc' = "idle"
    /\ reply' # reply

\* C19: a command that ends in a validation error tells the admin so, and
\* the state file is what it was when the command arrived.
C19_RefusalReportedNoChange ==
    [][CommandRefused
          => /\ reply' \in ValidationReplies
             /\ hpc = "idle" => file' = file
             /\ hpc # "idle" => ReadResult(file') = hloaded]_vars

\* ----------------------------------------------------------------- C20
\* send_message raises
SendFails == tpc = "send" /\ tpc' # "send" /\ ~outbox'.delivered

\* C20: when send_message raises, the file is untouched and the tick goes
\* back to its daily sleep, not to the 60-second one; it calls send_message
\* again only after it has woken and read the file anew.
C20_SendFailureContained ==
    [][/\ SendFails => (file' = file /\ tpc' = "sleep")
       /\ (tpc # "send" /\ tpc' = "send") => tpc \in {"read", "nf_close", "bad_close"}]_vars

\* a message was not delivered and the tick is asleep until the next day
C20_Witness ==
    /\ tpc = "sleep"
    /\ outbox.text # NoMessage
    /\ ~outbox.delivered

\* ----------------------------------------------------------------- C21
\* the entries of s are the first entries of t, in the same order
IsPrefix(s, t) == Len(s) <= Len(t) /\ SubSeq(t, 1, Len(s)) = s

\* read_data returns the content of a well-formed file to the tick
TickLoadsFile == tpc = "read" /\ ReadOk(file) /\ tpc' # "read"

\* the tick posts its message or gives the iteration up
TickEndsQuiet == tpc \in {"send", "backoff"} /\ tpc' = "sleep"

\* a write_data of lines 290, 294, 299 opens the file
TickOpensWrite ==
    /\ tpc \in {"w1_open", "w2_open"}
    /\ tpc' \in {"w1_close", "w2_close"}

\* C21: a tick that loads a well-formed file whose target_date is null or is
\* not today writes nothing; a tick writes only when it has loaded
\* target_date = today; and what a tick writes keeps the entries of
\* intervals that the file holds, in their order.
C21_TickFrame ==
    [][/\ (TickLoadsFile /\ ~IsEventDay(tloaded', today))
            => (tpc' \in {"send", "backoff"} /\ file' = file)
       /\ TickEndsQuiet => file' = file
       /\ TickOpensWrite => IsEventDay(tloaded, today)
       /\ (TickOpensWrite /\ ReadOk(file))
            => IsPrefix(file.doc.intervals, tdata.intervals)]_vars

\* ----------------------------------------------------------------- C22
\* an iteration of bot.py's loop passes its sleep
BotTicks == bot'.day # bot.day

\* C22: every tick of bot.py posts one message and the loop goes on: the
\* infinity sign when no target is set, otherwise the number of days to the
\* target, not below 0.
C22_BotPostsDaily ==
    [][BotTicks
          => /\ bot'.running
             /\ bot'.message =
                  IF bot.target_date = BotNoTarget
                  THEN Infinity
                  ELSE [kind |-> "countdown",
                        n |-> IF bot.target_date.day > now
                              THEN bot.target_date.day - now ELSE 0]]_vars

====
